---- MODULE Spec2Model ----
(***************************************************************************)
(* Model of the struct/type disassembler of dvm                            *)
(* (compiler/src/mv/disassembler): Imports::new, Generics::new,            *)
(* StructDef::new with its recursive type-signature decoding, and the      *)
(* Encode implementations that write the module text into a writer.        *)
(*                                                                         *)
(* Table indices are 0-based as in the source; At(s, i) reads s[i].        *)
(* Text is a sequence of pieces: every piece is one lexical token or one   *)
(* run of whitespace, in the order the code writes them. Flat(text) is     *)
(* the string the writer holds.                                            *)
(***************************************************************************)
EXTENDS Integers, Sequences, FiniteSets, TLC

VARIABLES
    entry,      \* "disasm": disasm(bytecode, w); "unit": Unit::new(..) + write_code on an in-memory module
    wellformed, \* whether the bytes are a serialized module at all (FALSE: `module` is never produced)
    module,     \* the CompiledModuleMut the call works on
    cap,        \* the caller's writer W: [limited, n], failing after n pieces when limited (a String is not)
    pc,         \* position inside the call
    idx,        \* loop index of the running loop
    imports,    \* Imports.imports: name -> (address -> ImportName)
    generics,   \* Generics (the module's GenericPrefix)
    structs,    \* Module.structs decoded so far
    w,          \* the caller's writer: pieces written so far
    result,     \* "none" while running, then "ok", "err" (Err returned) or "panic"
    run,        \* 1 for the first call on this input, 2 for the repeated call
    first,      \* outcome of the first call: [result, text]
    shutdown_signal, \* GrpcDataSource::new's Option<ShutdownSig>: "none", or the oneshot's state
    uri,        \* whether ds_addr converts into an Endpoint
    discards,   \* whether the request channel drops its queued messages with its receiver
    server,     \* the data source's answer to get_raw, per access path: an error code
    worker,     \* position of the thread running internal_loop
    request,    \* the Request the worker has received and not yet answered
    channel,    \* the bounded(10) request channel: queued Requests
    callers,    \* position of each thread inside StateView::get
    paths,      \* the access path of each thread's call
    results,    \* what each thread's call returned
    module_handles, \* BytecodeUses::extract: its local copy of the module-handle table
    uses        \* BytecodeUses.imports: the module ids collected

callVars == <<entry, wellformed, module, cap, pc, idx, imports, generics, structs, w, result, run, first>>

dsVars == <<shutdown_signal, uri, discards, server, worker, request, channel, callers, paths, results>>

usesVars == <<module_handles, uses>>

vars == <<callVars, dsVars, usesVars>>

-----------------------------------------------------------------------------
\* Bounds of the explored inputs.

MaxHandles == 4
MaxStructs == 2
MaxDepth == 2
MaxArgs == 2
MaxParams == 2
MaxTaken == 2
MaxCap == 20
MaxFields == 3
MaxCallers == 2
MaxRand == 1

-----------------------------------------------------------------------------
\* Generic helpers.

At(s, i) == s[i + 1]

InBounds(s, i) == i >= 0 /\ i < Len(s)

Range(s) == {s[i] : i \in DOMAIN s}

Min(a, b) == IF a < b THEN a ELSE b

RECURSIVE Flat(_)
Flat(text) == IF text = <<>> THEN "" ELSE Head(text) \o Flat(Tail(text))

RECURSIVE Concat(_)
Concat(ss) == IF ss = <<>> THEN <<>> ELSE Head(ss) \o Concat(Tail(ss))

\* The value a panicking index expression stands for while the panic unwinds.
PanicStr == "<panic>"

PanicRec == [tag |-> "PANIC"]

-----------------------------------------------------------------------------
\* The binary format's values (libra file_format), as far as the code reads them.

U8 == [tag |-> "U8"]
U64 == [tag |-> "U64"]
U128 == [tag |-> "U128"]
Bool == [tag |-> "Bool"]
Address == [tag |-> "Address"]
Signer == [tag |-> "Signer"]
Vector(t) == [tag |-> "Vector", inner |-> t]
Reference(t) == [tag |-> "Reference", inner |-> t]
MutableReference(t) == [tag |-> "MutableReference", inner |-> t]
Struct(h) == [tag |-> "Struct", handle |-> h]
StructInstantiation(h, args) == [tag |-> "StructInstantiation", handle |-> h, args |-> args]
TypeParameter(i) == [tag |-> "TypeParameter", index |-> i]

Primitives == {U8, U64, U128, Bool, Address, Signer}

Kinds == {"All", "Resource", "Copyable"}

Native == [tag |-> "Native"]
Declared(fields) == [tag |-> "Declared", fields |-> fields]

ModuleHandle(name, address) == [name |-> name, address |-> address]

StructHandle(m, name, res, kinds) ==
    [module |-> m, name |-> name, is_nominal_resource |-> res, type_parameters |-> kinds]

StructDefinition(h, info) == [struct_handle |-> h, field_information |-> info]

FieldDefinition(name, sig) == [name |-> name, signature |-> sig]

-----------------------------------------------------------------------------
\* The explored inputs.

GENERICS_PREFIX ==
    <<"T", "G", "V", "A", "B", "C", "D", "F", "H", "J", "K", "L", "M", "N", "P", "Q", "R", "S",
      "W", "X", "Y", "Z">>

BaseIdentifiers == <<"Main", "Foo", "Foo1", "Coin", "Box", "Pair", "Item", "value", "other">>

IdentIdx(name) == (CHOOSE i \in DOMAIN BaseIdentifiers : BaseIdentifiers[i] = name) - 1

Addresses == <<"01", "02", "03">>

StructNames == <<"Coin", "Box", "Pair", "Item">>

\* The first k candidate letters are identifiers of the module.
Taken(k) == SubSeq(GENERICS_PREFIX, 1, k)

ExtraPools ==
    {Taken(k) : k \in 0..MaxTaken}
        \cup {Taken(Len(GENERICS_PREFIX))}
        \cup {Taken(k) \o <<GENERICS_PREFIX[k + 1] \o "_1">> : k \in 0..MaxTaken}
        \cup {<<"G">>, <<"TYPE_0">>}

SeqsUpTo(S, n) == UNION {[1..k -> S] : k \in 0..n}

MkModule(extra, handles, self, shandles, sdefs) ==
    [identifiers |-> BaseIdentifiers \o extra,
     address_identifiers |-> Addresses,
     module_handles |-> handles,
     self_module_handle_idx |-> self,
     struct_handles |-> shandles,
     struct_defs |-> sdefs]

\* Module-handle tables: every table of 1..MaxHandles handles over the module
\* itself, Foo at three addresses and Foo1 (repeated pairs included), the self
\* handle at every index; one struct handle per module handle and one struct
\* whose fields use them all.
HandleValues ==
    {ModuleHandle(IdentIdx("Main"), 0), ModuleHandle(IdentIdx("Foo1"), 0)}
        \cup {ModuleHandle(IdentIdx("Foo"), a) : a \in {0, 1, 2}}

SelfValues == {ModuleHandle(IdentIdx("Main"), 0), ModuleHandle(IdentIdx("Foo"), 0)}

HandleModules ==
    {MkModule(<<>>, p[1], p[2],
              [i \in 1..Len(p[1]) |-> StructHandle(i - 1, IdentIdx("Item"), FALSE, <<>>)]
                  \o <<StructHandle(p[2], IdentIdx("Coin"), TRUE, <<>>)>>,
              <<StructDefinition(Len(p[1]),
                    Declared([i \in 1..Len(p[1]) |->
                        FieldDefinition(IdentIdx("value"), Struct(i - 1))]))>>) :
        p \in {q \in (SeqsUpTo(HandleValues, MaxHandles) \ {<<>>}) \X (0..(MaxHandles - 1)) :
                  q[2] < Len(q[1]) /\ At(q[1], q[2]) \in SelfValues}}

\* The handle table of the other families: the module itself and one import.
TwoHandles == <<ModuleHandle(IdentIdx("Main"), 0), ModuleHandle(IdentIdx("Foo"), 1)>>

\* Struct tables: up to MaxStructs definitions, each Native (with or without
\* generic parameters) or Declared (with zero or two fields), resource or not.
TwoFields ==
    <<FieldDefinition(IdentIdx("value"), U64),
      FieldDefinition(IdentIdx("other"), Vector(TypeParameter(0)))>>

Shapes ==
    {[native |-> TRUE, resource |-> r, kinds |-> k, fields |-> <<>>] :
        r \in BOOLEAN, k \in {<<>>, <<"All", "Resource">>}}
    \cup
    {[native |-> FALSE, resource |-> r, kinds |-> <<>>, fields |-> f] :
        r \in BOOLEAN, f \in {<<>>, TwoFields}}

ShapeModule(extra, shapes) ==
    MkModule(extra, TwoHandles, 0,
             [k \in 1..Len(shapes) |->
                 StructHandle(0, IdentIdx(StructNames[k]), shapes[k].resource, shapes[k].kinds)],
             [k \in 1..Len(shapes) |->
                 StructDefinition(k - 1,
                     IF shapes[k].native THEN Native ELSE Declared(shapes[k].fields))])

StructModules ==
    {ShapeModule(<<>>, ss) :
        ss \in SeqsUpTo(Shapes, MaxStructs)}

\* Identifier pools against generic parameter lists: one struct whose header
\* has 0..MaxParams parameters of every kind and whose fields name them.
PoolModules ==
    {MkModule(extra, TwoHandles, 0,
              <<StructHandle(0, IdentIdx("Box"), FALSE, kinds)>>,
              <<StructDefinition(0,
                    Declared([i \in 1..Len(kinds) |->
                        FieldDefinition(IdentIdx("value"), TypeParameter(i - 1))]))>>) :
        extra \in ExtraPools, kinds \in SeqsUpTo(Kinds, MaxParams)}

\* Type signatures: the atoms, and wrappers nested MaxDepth deep.
Atoms ==
    Primitives \cup {TypeParameter(i) : i \in 0..2} \cup {Struct(h) : h \in 0..2}

InnerAtoms == {U8, TypeParameter(1), Struct(1)}

Padding == <<Bool, TypeParameter(0), U128, Struct(0)>>

ArgLists(S) ==
    {<<>>} \cup {<<sig>> \o SubSeq(Padding, 1, k) : sig \in S, k \in 0..(MaxArgs - 1)}

RECURSIVE Nest(_)
Nest(d) ==
    IF d = 0 THEN InnerAtoms
    ELSE LET S == Nest(d - 1) IN
         InnerAtoms
             \cup {Vector(sig) : sig \in S}
             \cup {Reference(sig) : sig \in S}
             \cup {MutableReference(sig) : sig \in S}
             \cup {StructInstantiation(h, args) : h \in 0..1, args \in ArgLists(S)}

Signatures == Atoms \cup Nest(MaxDepth)

\* One struct Pair<_, _: resource> of the module with one field of the signature;
\* struct handle 1 is Foo's Item<_>.
SignatureModule(sig) ==
    MkModule(<<>>, TwoHandles, 0,
             <<StructHandle(0, IdentIdx("Pair"), FALSE, <<"All", "Resource">>),
               StructHandle(1, IdentIdx("Item"), FALSE, <<"All">>)>>,
             <<StructDefinition(0, Declared(<<FieldDefinition(IdentIdx("value"), sig)>>))>>)

SignatureModules == {SignatureModule(sig) : sig \in Signatures}

\* Tables with one index out of its pool.
GoodModule == SignatureModule(Struct(1))

BrokenModules ==
    {[GoodModule EXCEPT !.module_handles[2].name = Len(GoodModule.identifiers)],
     [GoodModule EXCEPT !.module_handles[2].address = Len(Addresses)],
     [GoodModule EXCEPT !.struct_handles[2].module = 2],
     [GoodModule EXCEPT !.struct_handles[2].name = Len(GoodModule.identifiers)],
     [GoodModule EXCEPT !.struct_handles[1].name = Len(GoodModule.identifiers)],
     [GoodModule EXCEPT !.struct_defs[1].struct_handle = 2],
     [GoodModule EXCEPT !.struct_defs[1].field_information.fields[1].name =
                             Len(GoodModule.identifiers)]}

\* Field lists: one resource struct Coin with 1..MaxFields fields, each one of
\* three name and type pairs, in every order.
FieldChoices ==
    {FieldDefinition(IdentIdx("value"), U64),
     FieldDefinition(IdentIdx("other"), Vector(U8)),
     FieldDefinition(IdentIdx("Item"), Address)}

FieldModules ==
    {MkModule(<<>>, TwoHandles, 0,
              <<StructHandle(0, IdentIdx("Coin"), TRUE, <<>>)>>,
              <<StructDefinition(0, Declared(fields))>>) :
        fields \in SeqsUpTo(FieldChoices, MaxFields) \ {<<>>}}

\* What compiling
\*   address 0x01 { module Main { use 0x<a>::Foo; resource struct Coin { value: Foo::Item } } }
\* gives: the module, its import of Foo at address index a, and the struct.
ImportingModule(a) ==
    MkModule(<<>>, <<ModuleHandle(IdentIdx("Main"), 0), ModuleHandle(IdentIdx("Foo"), a)>>, 0,
             <<StructHandle(0, IdentIdx("Coin"), TRUE, <<>>),
               StructHandle(1, IdentIdx("Item"), FALSE, <<>>)>>,
             <<StructDefinition(0, Declared(<<FieldDefinition(IdentIdx("value"), Struct(1))>>))>>)

CompiledModules == {ImportingModule(a) : a \in 0..(Len(Addresses) - 1)}

\* The module values handed to Unit::new without the deserializer's check.
UncheckedModules ==
    StructModules \cup {SignatureModule(sig) : sig \in Atoms} \cup BrokenModules

Modules == CompiledModules \cup FieldModules \cup HandleModules \cup StructModules \cup PoolModules \cup SignatureModules \cup BrokenModules

\* The writers: a String (never fails), and writers failing after n pieces,
\* tried on one module of two structs.
WriterModule ==
    ShapeModule(<<>>, <<[native |-> TRUE, resource |-> FALSE, kinds |-> <<"All">>, fields |-> <<>>],
                        [native |-> FALSE, resource |-> TRUE, kinds |-> <<>>,
                         fields |-> <<FieldDefinition(IdentIdx("value"), U64)>>]>>)

StringWriter == [limited |-> FALSE, n |-> 0]

FailingWriter(n) == [limited |-> TRUE, n |-> n]

-----------------------------------------------------------------------------
\* CompiledModule::deserialize: the bounds check of the binary format. Every
\* index a struct definition reaches resolves inside its table.

RECURSIVE SignatureInBounds(_, _, _)
SignatureInBounds(m, sig, nparams) ==
    CASE sig.tag \in {"Vector", "Reference", "MutableReference"} ->
            SignatureInBounds(m, sig.inner, nparams)
      [] sig.tag = "Struct" -> InBounds(m.struct_handles, sig.handle)
      [] sig.tag = "StructInstantiation" ->
            /\ InBounds(m.struct_handles, sig.handle)
            /\ \A i \in DOMAIN sig.args : SignatureInBounds(m, sig.args[i], nparams)
      [] sig.tag = "TypeParameter" -> sig.index < nparams
      [] OTHER -> TRUE

BoundsOk(m) ==
    /\ InBounds(m.module_handles, m.self_module_handle_idx)
    /\ \A i \in DOMAIN m.module_handles :
          /\ InBounds(m.identifiers, m.module_handles[i].name)
          /\ InBounds(m.address_identifiers, m.module_handles[i].address)
    /\ \A i \in DOMAIN m.struct_handles :
          /\ InBounds(m.module_handles, m.struct_handles[i].module)
          /\ InBounds(m.identifiers, m.struct_handles[i].name)
    /\ \A i \in DOMAIN m.struct_defs :
          LET def == m.struct_defs[i] IN
          /\ InBounds(m.struct_handles, def.struct_handle)
          /\ def.field_information.tag = "Declared" =>
                \A j \in DOMAIN def.field_information.fields :
                    LET f == def.field_information.fields[j] IN
                    /\ InBounds(m.identifiers, f.name)
                    /\ SignatureInBounds(m, f.signature,
                           Len(At(m.struct_handles, def.struct_handle).type_parameters))

\* module.self_id(): the (address, name) of the self module handle.
SelfId(m) ==
    LET h == At(m.module_handles, m.self_module_handle_idx) IN
    [address |-> At(m.address_identifiers, h.address), name |-> At(m.identifiers, h.name)]

-----------------------------------------------------------------------------
\* imports.rs

EmptyMap == [x \in {} |-> x]

ImportNameName(name) == [kind |-> "Name", name |-> name]

ImportNameAlias(name, count) == [kind |-> "Alias", name |-> name, count |-> count]

NoImport == [kind |-> "None"]

\* Whether the loop body of Imports::new panics on the handle at index.
ImportsNewPanics(m, index) ==
    LET handler == At(m.module_handles, index) IN
    /\ m.self_module_handle_idx # index
    /\ \/ ~InBounds(m.identifiers, handler.name)
       \/ ~InBounds(m.address_identifiers, handler.address)

\* NewImportName numbering the aliases from 2.
NewImportNameOffByOne(module_name, count) ==
    IF count = 0 THEN ImportNameName(module_name) ELSE ImportNameAlias(module_name, count + 1)

\* The token a (name, count) pair gets: count is the number of addresses the
\* name already has.
NewImportName(module_name, count) ==
    IF count = 0 THEN ImportNameName(module_name) ELSE ImportNameAlias(module_name, count)

\* One iteration of the loop of Imports::new: the map after the handle at index.
ImportsNewStep(map, m, index) ==
    IF m.self_module_handle_idx = index THEN map
    ELSE LET handler == At(m.module_handles, index)
             module_name == At(m.identifiers, handler.name)
             name_map == IF module_name \in DOMAIN map THEN map[module_name] ELSE EmptyMap
             count == Cardinality(DOMAIN name_map)
             address == At(m.address_identifiers, handler.address)
             inserted == IF address \in DOMAIN name_map THEN name_map
                         ELSE (address :> NewImportName(module_name, count)) @@ name_map
         IN (module_name :> inserted) @@ map

get_import(map, address, name) ==
    IF name \in DOMAIN map /\ address \in DOMAIN map[name] THEN map[name][address]
    ELSE NoImport

\* Encode for ImportName: the bare module name, or the name followed by the
\* alias number.
ImportNameEncode(import) ==
    IF import.kind = "Name" THEN <<import.name>>
    ELSE <<import.name \o ToString(import.count)>>

-----------------------------------------------------------------------------
\* generics.rs

U16Max == 65535

RandVals == (0..MaxRand) \cup {U16Max}

SimplePrefix(p) == [kind |-> "SimplePrefix", p |-> p]

Generated(n) == [kind |-> "Generated", n |-> n]

NoGenerics == [kind |-> "Unset"]

\* The candidates absent from the identifier pool, by position.
FreePrefixes(identifiers) ==
    {i \in DOMAIN GENERICS_PREFIX : GENERICS_PREFIX[i] \notin Range(identifiers)}

\* Generics::new drawing the random prefix whatever the pool holds.
GenericsNewAlwaysRandom(m, rnd) == Generated(rnd)

\* Generics::new; rnd is the value rand::random() returns if it is called.
GenericsNew(m, rnd) ==
    LET free == FreePrefixes(m.identifiers) IN
    IF free # {}
    THEN SimplePrefix(GENERICS_PREFIX[CHOOSE i \in free : \A j \in free : i <= j])
    ELSE Generated(rnd)

create_generic(prefix, index, kind) == [prefix |-> prefix, index |-> index, kind |-> kind]

GenericsEncode(prefix) ==
    IF prefix.kind = "SimplePrefix" THEN <<prefix.p>>
    ELSE <<"TYPE_", ToString(prefix.n)>>

\* The suffix written for parameter 0 too.
IndexSuffixAlways(index) == <<"_", ToString(index)>>

IndexSuffix(index) == IF index # 0 THEN <<"_", ToString(index)>> ELSE <<>>

KindSuffix(kind) ==
    CASE kind = "All" -> <<>>
      [] kind = "Resource" -> <<": resource">>
      [] kind = "Copyable" -> <<": copyable">>

\* Encode for Generic: the parameter as the struct header declares it.
GenericEncode(generic) ==
    GenericsEncode(generic.prefix) \o IndexSuffix(generic.index) \o KindSuffix(generic.kind)

\* Encode for GenericName: the parameter as a field type names it.
GenericNameEncode(generic) ==
    GenericsEncode(generic.prefix) \o IndexSuffix(generic.index)

-----------------------------------------------------------------------------
\* structs.rs: decoding. An index expression out of its table panics; the
\* decoded value is then PanicRec, and so is every value built from it.

INDENT == 4

FGeneric(generic) == [tag |-> "Generic", generic |-> generic]
FPrimitive(name) == [tag |-> "Primitive", name |-> name]
FRef(t) == [tag |-> "Ref", inner |-> t]
FRefMut(t) == [tag |-> "RefMut", inner |-> t]
FVec(t) == [tag |-> "Vec", inner |-> t]
FStruct(name) == [tag |-> "Struct", name |-> name]
FStructInst(name, args) == [tag |-> "StructInst", name |-> name, args |-> args]

FullStructName(name, import) == [name |-> name, import |-> import]

extract_struct_name(m, struct_index, map) ==
    IF ~InBounds(m.struct_handles, struct_index) THEN PanicRec
    ELSE LET handler == At(m.struct_handles, struct_index) IN
    IF ~InBounds(m.module_handles, handler.module) THEN PanicRec
    ELSE LET module_handler == At(m.module_handles, handler.module) IN
    IF \/ ~InBounds(m.identifiers, module_handler.name)
       \/ ~InBounds(m.address_identifiers, module_handler.address)
       \/ ~InBounds(m.identifiers, handler.name)
    THEN PanicRec
    ELSE LET module_name == At(m.identifiers, module_handler.name)
             address == At(m.address_identifiers, module_handler.address)
             type_name == At(m.identifiers, handler.name)
         IN FullStructName(type_name, get_import(map, address, module_name))

Wrap(ftype, inner) == IF inner = PanicRec THEN PanicRec ELSE ftype

RECURSIVE extract_type_signature(_, _, _, _)
extract_type_signature(m, signature, map, type_params) ==
    CASE signature.tag = "U8" -> FPrimitive("u8")
      [] signature.tag = "Bool" -> FPrimitive("bool")
      [] signature.tag = "U64" -> FPrimitive("u64")
      [] signature.tag = "U128" -> FPrimitive("u128")
      [] signature.tag = "Address" -> FPrimitive("address")
      [] signature.tag = "Signer" -> FPrimitive("signer")
      [] signature.tag = "Vector" ->
            LET t == extract_type_signature(m, signature.inner, map, type_params)
            IN Wrap(FVec(t), t)
      [] signature.tag = "Struct" ->
            LET name == extract_struct_name(m, signature.handle, map)
            IN Wrap(FStruct(name), name)
      [] signature.tag = "StructInstantiation" ->
            LET name == extract_struct_name(m, signature.handle, map)
                typed == [i \in DOMAIN signature.args |->
                             extract_type_signature(m, signature.args[i], map, type_params)]
            IN IF name = PanicRec \/ \E i \in DOMAIN typed : typed[i] = PanicRec
               THEN PanicRec
               ELSE FStructInst(name, typed)
      [] signature.tag = "Reference" ->
            LET t == extract_type_signature(m, signature.inner, map, type_params)
            IN Wrap(FRef(t), t)
      [] signature.tag = "MutableReference" ->
            LET t == extract_type_signature(m, signature.inner, map, type_params)
            IN Wrap(FRefMut(t), t)
      [] signature.tag = "TypeParameter" ->
            IF InBounds(type_params, signature.index)
            THEN FGeneric(At(type_params, signature.index))
            ELSE PanicRec

Field(name, f_type) == [name |-> name, f_type |-> f_type]

extract_fields(m, info, map, type_params) ==
    IF info.tag = "Declared"
    THEN [i \in DOMAIN info.fields |->
             LET def == info.fields[i]
                 f_type == extract_type_signature(m, def.signature, map, type_params)
             IN IF ~InBounds(m.identifiers, def.name) \/ f_type = PanicRec
                THEN PanicRec
                ELSE Field(At(m.identifiers, def.name), f_type)]
    ELSE <<>>

\* StructDef::new, or PanicRec when it panics.
StructDefNew(def, m, generic, map) ==
    IF ~InBounds(m.struct_handles, def.struct_handle) THEN PanicRec
    ELSE LET handler == At(m.struct_handles, def.struct_handle) IN
    IF ~InBounds(m.identifiers, handler.name) THEN PanicRec
    ELSE LET name == At(m.identifiers, handler.name)
             type_params == [i \in DOMAIN handler.type_parameters |->
                                create_generic(generic, i - 1, handler.type_parameters[i])]
             fields == extract_fields(m, def.field_information, map, type_params)
         IN IF \E i \in DOMAIN fields : fields[i] = PanicRec THEN PanicRec
            ELSE [is_nominal_resource |-> handler.is_nominal_resource,
                  is_native |-> def.field_information = Native,
                  name |-> name,
                  type_params |-> type_params,
                  fields |-> fields]

-----------------------------------------------------------------------------
\* structs.rs: encoding. Every operator gives the pieces the encoder writes.

RECURSIVE Spaces(_)
Spaces(n) == IF n = 0 THEN "" ELSE " " \o Spaces(n - 1)

\* "{s:width$}" with s = "".
Pad(indent) == IF indent = 0 THEN <<>> ELSE <<Spaces(indent)>>

\* The separator written after the last item too.
CommaJoinTrailing(items) ==
    Concat([i \in DOMAIN items |-> items[i] \o <<", ">>])

\* The pieces of items, with ", " written after every item but the last.
CommaJoin(items) ==
    Concat([i \in DOMAIN items |->
               items[i] \o (IF i # Len(items) THEN <<", ">> ELSE <<>>)])

FullStructNameEncode(name) ==
    (IF name.import # NoImport THEN ImportNameEncode(name.import) \o <<"::">> ELSE <<>>)
        \o <<name.name>>

RECURSIVE FTypeEncode(_)
FTypeEncode(t) ==
    CASE t.tag = "Primitive" -> <<t.name>>
      [] t.tag = "Generic" -> GenericNameEncode(t.generic)
      [] t.tag = "Ref" -> <<"&">> \o FTypeEncode(t.inner)
      [] t.tag = "RefMut" -> <<"&mut ">> \o FTypeEncode(t.inner)
      [] t.tag = "Vec" -> <<"vector<">> \o FTypeEncode(t.inner) \o <<">">>
      [] t.tag = "Struct" -> FullStructNameEncode(t.name)
      [] t.tag = "StructInst" ->
            FullStructNameEncode(t.name)
                \o (IF t.args # <<>>
                    THEN <<"<">> \o CommaJoin([i \in DOMAIN t.args |-> FTypeEncode(t.args[i])])
                             \o <<">">>
                    ELSE <<>>)

\* The field written at the indent of the struct header.
FieldEncodeHeaderIndent(field, indent) ==
    Pad(indent - INDENT) \o <<field.name, ": ">> \o FTypeEncode(field.f_type)

FieldEncode(field, indent) ==
    Pad(indent) \o <<field.name, ": ">> \o FTypeEncode(field.f_type)

nominal_name(sd) ==
    IF sd.is_nominal_resource THEN "resource struct"
    ELSE IF sd.is_native THEN "native struct"
    ELSE "struct"

write_type_parameters(type_params) ==
    IF type_params # <<>>
    THEN <<"<">> \o CommaJoin([i \in DOMAIN type_params |-> GenericEncode(type_params[i])])
             \o <<">">>
    ELSE <<>>

StructDefHeader(sd, indent) ==
    Pad(indent) \o <<nominal_name(sd), " ", sd.name>> \o write_type_parameters(sd.type_params)

\* A struct without fields written as a declaration without a field block.
StructDefEncodeEmptyAsNative(sd, indent) ==
    IF sd.is_native \/ sd.fields = <<>>
    THEN StructDefHeader(sd, indent) \o <<";\n">>
    ELSE StructDefHeader(sd, indent) \o <<" {\n">>
             \o Concat([i \in DOMAIN sd.fields |->
                    FieldEncode(sd.fields[i], indent + INDENT)
                        \o (IF i # Len(sd.fields) THEN <<",\n">> ELSE <<"\n">>)])
             \o Pad(indent) \o <<"}">>

StructDefEncode(sd, indent) ==
    IF sd.is_native
    THEN StructDefHeader(sd, indent) \o <<";\n">>
    ELSE StructDefHeader(sd, indent) \o <<" {\n">>
             \o Concat([i \in DOMAIN sd.fields |->
                    FieldEncode(sd.fields[i], indent + INDENT)
                        \o (IF i # Len(sd.fields) THEN <<",\n">> ELSE <<"\n">>)])
             \o Pad(indent) \o <<"}">>

-----------------------------------------------------------------------------
\* module.rs: the three parts of Module::write.

ModuleWriteHeader(id) ==
    <<"address 0x", id.address, " { \n">> \o <<"module ", id.name, " {\n">>

ModuleWriteStruct(sd) == StructDefEncode(sd, INDENT) \o <<"\n">>

ModuleWriteFooter == <<"}\n">> \o <<"}\n">>

\* The writer: the pieces of `pieces` it takes before it fails.
Accepted(text, writer, pieces) ==
    IF writer.limited
    THEN SubSeq(pieces, 1, Min(Len(pieces), IF writer.n > Len(text) THEN writer.n - Len(text) ELSE 0))
    ELSE pieces

-----------------------------------------------------------------------------
\* disasm_str as a function of the module: the text of a call that meets no
\* panic and draws rnd if it draws.

RECURSIVE ImportsNewFrom(_, _, _)
ImportsNewFrom(map, m, index) ==
    IF index = Len(m.module_handles) THEN map
    ELSE ImportsNewFrom(ImportsNewStep(map, m, index), m, index + 1)

DisasmTextOf(m, rnd) ==
    LET map == ImportsNewFrom(EmptyMap, m, 0)
        generic == GenericsNew(m, rnd)
    IN ModuleWriteHeader(SelfId(m))
           \o Concat([i \in DOMAIN m.struct_defs |->
                  ModuleWriteStruct(StructDefNew(m.struct_defs[i], m, generic, map))])
           \o ModuleWriteFooter

\* Compiler::compile followed by CompiledModule::deserialize. The compiler is
\* a function of the source text and the declared address; it is taken here as
\* the function most favourable to the round trip: a text that is the
\* disassembly of a compiled module compiles to such a module.
CompileError == [error |-> "compile"]

Compile(text) ==
    LET sources == {m \in CompiledModules : Flat(DisasmTextOf(m, 0)) = text} IN
    IF sources = {} THEN CompileError ELSE CHOOSE m \in sources : TRUE

-----------------------------------------------------------------------------
\* The call, step by step. No data source exists meanwhile.

NoRequest == [caller |-> 0, path |-> 0]

NoResult == [tag |-> "none"]

NoExtraction ==
    /\ module_handles = <<>>
    /\ uses = {}

NoDataSource ==
    /\ shutdown_signal = "none"
    /\ uri = "none"
    /\ discards = FALSE
    /\ server = <<>>
    /\ worker = "none"
    /\ request = NoRequest
    /\ channel = <<>>
    /\ callers = <<>>
    /\ paths = <<>>
    /\ results = <<>>

Init ==
    /\ \/ /\ entry = "disasm" /\ wellformed = TRUE
          /\ \/ module \in Modules /\ cap = StringWriter
             \/ module = WriterModule /\ cap \in {FailingWriter(n) : n \in 0..MaxCap}
       \/ /\ entry = "disasm" /\ wellformed = FALSE
          /\ module = GoodModule /\ cap = StringWriter
       \/ /\ entry = "unit" /\ wellformed = TRUE
          /\ module \in UncheckedModules /\ cap = StringWriter
    /\ pc = "start"
    /\ idx = 0
    /\ imports = EmptyMap
    /\ generics = NoGenerics
    /\ structs = <<>>
    /\ w = <<>>
    /\ result = "none"
    /\ run = 1
    /\ first = [result |-> "none", text |-> <<>>]
    /\ NoDataSource
    /\ NoExtraction

Finish(res) ==
    /\ pc' = "done"
    /\ result' = res

\* disasm, line 25: CompiledModule::deserialize(bytecode)?. The other entry,
\* Unit::new on a module value, has no such step.
Deserialize ==
    /\ pc = "start"
    /\ IF entry = "disasm" /\ ~(wellformed /\ BoundsOk(module))
       THEN Finish("err")
       ELSE pc' = "imports" /\ result' = result
    /\ UNCHANGED <<entry, wellformed, module, cap, idx, imports, generics, structs, w, run, first>>
    /\ UNCHANGED <<dsVars, usesVars>>

\* Imports::new: one iteration of its loop, or its return.
ImportsNew ==
    /\ pc = "imports"
    /\ IF idx = Len(module.module_handles)
       THEN /\ pc' = "generics"
            /\ idx' = 0
            /\ UNCHANGED <<imports, result>>
       ELSE IF ImportsNewPanics(module, idx)
       THEN /\ Finish("panic")
            /\ UNCHANGED <<idx, imports>>
       ELSE /\ imports' = ImportsNewStep(imports, module, idx)
            /\ idx' = idx + 1
            /\ UNCHANGED <<pc, result>>
    /\ UNCHANGED <<entry, wellformed, module, cap, generics, structs, w, run, first>>
    /\ UNCHANGED <<dsVars, usesVars>>

\* Generics::new.
GenericsNewCall ==
    /\ pc = "generics"
    /\ \E rnd \in RandVals : generics' = GenericsNew(module, rnd)
    /\ pc' = "decode"
    /\ UNCHANGED <<entry, wellformed, module, cap, idx, imports, structs, w, result, run, first>>
    /\ UNCHANGED <<dsVars, usesVars>>

\* Module::new: .collect() keeps the order of the iterator.
CollectFront(decoded, sd) == <<sd>> \o decoded

Collect(decoded, sd) == Append(decoded, sd)

\* Each struct written as soon as it is decoded.
ModuleNewStreaming ==
    /\ pc = "decode"
    /\ IF idx = Len(module.struct_defs)
       THEN /\ pc' = "header"
            /\ idx' = 0
            /\ UNCHANGED <<structs, result, w>>
       ELSE LET sd == StructDefNew(At(module.struct_defs, idx), module, generics, imports) IN
            IF sd = PanicRec
            THEN /\ Finish("panic")
                 /\ UNCHANGED <<idx, structs, w>>
            ELSE /\ structs' = Collect(structs, sd)
                 /\ w' = w \o ModuleWriteStruct(sd)
                 /\ idx' = idx + 1
                 /\ UNCHANGED <<pc, result>>
    /\ UNCHANGED <<entry, wellformed, module, cap, imports, generics, run, first>>
    /\ UNCHANGED <<dsVars, usesVars>>

\* Unit::new -> Module::new: StructDef::new for the next struct definition, or
\* the return of the collected module.
ModuleNew ==
    /\ pc = "decode"
    /\ IF idx = Len(module.struct_defs)
       THEN /\ pc' = "header"
            /\ idx' = 0
            /\ UNCHANGED <<structs, result>>
       ELSE LET sd == StructDefNew(At(module.struct_defs, idx), module, generics, imports) IN
            IF sd = PanicRec
            THEN /\ Finish("panic")
                 /\ UNCHANGED <<idx, structs>>
            ELSE /\ structs' = Collect(structs, sd)
                 /\ idx' = idx + 1
                 /\ UNCHANGED <<pc, result>>
    /\ UNCHANGED <<entry, wellformed, module, cap, imports, generics, w, run, first>>
    /\ UNCHANGED <<dsVars, usesVars>>

\* A part of Module::write: the writer takes the pieces, or fails on one of
\* them and the `?` returns the error.
Write(pieces, next) ==
    LET taken == Accepted(w, cap, pieces) IN
    /\ w' = w \o taken
    /\ IF Len(taken) < Len(pieces)
       THEN Finish("err")
       ELSE IF next = "done" THEN Finish("ok") ELSE pc' = next /\ result' = result

WriteHeader ==
    /\ pc = "header"
    /\ Write(ModuleWriteHeader(SelfId(module)), "structs")
    /\ UNCHANGED <<entry, wellformed, module, cap, idx, imports, generics, structs, run, first>>
    /\ UNCHANGED <<dsVars, usesVars>>

WriteStruct ==
    /\ pc = "structs"
    /\ idx < Len(structs)
    /\ Write(ModuleWriteStruct(At(structs, idx)), "structs")
    /\ idx' = idx + 1
    /\ UNCHANGED <<entry, wellformed, module, cap, imports, generics, structs, run, first>>
    /\ UNCHANGED <<dsVars, usesVars>>

WriteFooter ==
    /\ pc = "structs"
    /\ idx = Len(structs)
    /\ Write(ModuleWriteFooter, "done")
    /\ UNCHANGED <<entry, wellformed, module, cap, idx, imports, generics, structs, run, first>>
    /\ UNCHANGED <<dsVars, usesVars>>

\* The caller disassembles the same input once more, into a fresh writer.
Again ==
    /\ pc = "done"
    /\ run = 1
    /\ first' = [result |-> result, text |-> w]
    /\ run' = 2
    /\ pc' = "start"
    /\ idx' = 0
    /\ imports' = EmptyMap
    /\ generics' = NoGenerics
    /\ structs' = <<>>
    /\ w' = <<>>
    /\ result' = "none"
    /\ UNCHANGED <<entry, wellformed, module, cap>>
    /\ UNCHANGED <<dsVars, usesVars>>

Next ==
    \/ Deserialize
    \/ ImportsNew
    \/ GenericsNewCall
    \/ ModuleNew
    \/ WriteHeader
    \/ WriteStruct
    \/ WriteFooter
    \/ Again

Spec == Init /\ [][Next]_vars

-----------------------------------------------------------------------------
\* grpc.rs: GrpcDataSource. One thread runs internal_loop; the threads that
\* hold a clone of the data source call StateView::get.

ChannelCap == 10

Callers == 1..MaxCallers

AccessPaths == {"path_a", "path_b"}

\* What get_raw answers: response.error_code, with the blob and the message
\* of the access path asked for.
ErrorCodes == {"None", "BadRequest", "NoData", "Invalid"}

Blob(path) == <<"blob", path>>

ErrorMessage(path) == <<"error_message", path>>

OkSome(blob) == [tag |-> "Ok(Some)", blob |-> blob]

OkNone == [tag |-> "Ok(None)"]

Err(message) == [tag |-> "Err", message |-> message]

SendError == Err("SendError")

RecvError == Err("RecvError")

Request(c, path) == [caller |-> c, path |-> path]

\* BadRequest and NoData taken for each other.
MapResponseSwapped(error_code, blob, error_message) ==
    CASE error_code = "None" -> OkSome(blob)
      [] error_code = "BadRequest" -> OkNone
      [] error_code = "NoData" -> Err(error_message)

MapResponse(error_code, blob, error_message) ==
    CASE error_code = "None" -> OkSome(blob)
      [] error_code = "BadRequest" -> Err(error_message)
      [] error_code = "NoData" -> OkNone

\* No disassembly runs meanwhile.
NoCall ==
    /\ entry = "none"
    /\ wellformed = FALSE
    /\ module = <<>>
    /\ cap = StringWriter
    /\ pc = "none"
    /\ idx = 0
    /\ imports = EmptyMap
    /\ generics = NoGenerics
    /\ structs = <<>>
    /\ w = <<>>
    /\ result = "none"
    /\ run = 0
    /\ first = [result |-> "none", text |-> <<>>]

\* GrpcDataSource::new: the channel is created and the thread spawned.
GrpcInit ==
    /\ NoCall
    /\ NoExtraction
    /\ shutdown_signal \in {"none", "armed"}
    /\ uri \in {"valid", "invalid"}
    /\ discards \in BOOLEAN
    /\ server \in [AccessPaths -> ErrorCodes]
    /\ worker = "connect"
    /\ request = NoRequest
    /\ channel = <<>>
    /\ callers = [c \in Callers |-> "idle"]
    /\ paths = [c \in Callers |-> ""]
    /\ results = [c \in Callers |-> NoResult]

\* rx.try_recv().is_ok() on the shutdown signal.
ShutdownReceived == shutdown_signal = "sent"

\* The thread leaves internal_loop and its Receiver is dropped; the requests
\* still queued go with it or stay in the channel while a Sender lives.
Terminate ==
    /\ worker' = "stopped"
    /\ channel' = IF discards THEN <<>> ELSE channel

\* The head of the connect loop.
ConnectCheck ==
    /\ worker = "connect"
    /\ IF ShutdownReceived
       THEN /\ shutdown_signal' = "taken"
            /\ Terminate
       ELSE /\ worker' = "connecting"
            /\ UNCHANGED <<shutdown_signal, channel>>
    /\ UNCHANGED <<uri, discards, server, request, callers, paths, results>>
    /\ UNCHANGED <<callVars, usesVars>>

\* ds_addr.try_into() and endpoint.connect(): the process exits on an invalid
\* address; a failed connect is retried after the delay.
Connect ==
    /\ worker = "connecting"
    /\ IF uri = "invalid"
       THEN worker' = "exited"
       ELSE \E connected \in BOOLEAN : worker' = IF connected THEN "serve" ELSE "connect"
    /\ UNCHANGED <<shutdown_signal, uri, discards, server, request, channel, callers, paths, results>>
    /\ UNCHANGED <<callVars, usesVars>>

\* The head of the serve loop.
ServeCheck ==
    /\ worker = "serve"
    /\ IF ShutdownReceived
       THEN /\ shutdown_signal' = "taken"
            /\ Terminate
       ELSE /\ worker' = "recv"
            /\ UNCHANGED <<shutdown_signal, channel>>
    /\ UNCHANGED <<uri, discards, server, request, callers, paths, results>>
    /\ UNCHANGED <<callVars, usesVars>>

\* receiver.recv(): blocks while the channel is empty and a Sender lives; Err
\* once every Sender is dropped.
Receive ==
    /\ worker = "recv"
    /\ IF channel # <<>>
       THEN /\ request' = Head(channel)
            /\ channel' = Tail(channel)
            /\ worker' = "call"
       ELSE /\ \A c \in Callers : callers[c] = "dropped"
            /\ worker' = "serve"
            /\ UNCHANGED <<request, channel>>
    /\ UNCHANGED <<shutdown_signal, uri, discards, server, callers, paths, results>>
    /\ UNCHANGED <<callVars, usesVars>>

\* client.get_raw and the answer: a transport error exits the process, an
\* unknown error code panics the thread (the Request is dropped with it), any
\* other answer is mapped and handed to the caller through request.sender.
Serve ==
    /\ worker = "call"
    /\ \E transport \in BOOLEAN :
          IF ~transport
          THEN /\ worker' = "exited"
               /\ UNCHANGED <<request, channel, callers, results>>
          ELSE IF server[request.path] = "Invalid"
          THEN /\ Terminate
               /\ request' = NoRequest
               /\ UNCHANGED <<callers, results>>
          ELSE /\ results' = [results EXCEPT ![request.caller] =
                                 MapResponse(server[request.path], Blob(request.path),
                                             ErrorMessage(request.path))]
               /\ callers' = [callers EXCEPT ![request.caller] = "returned"]
               /\ request' = NoRequest
               /\ worker' = "serve"
               /\ UNCHANGED channel
    /\ UNCHANGED <<shutdown_signal, uri, discards, server, paths>>
    /\ UNCHANGED <<callVars, usesVars>>

\* StateView::get is called: its reply channel is created.
Get(c, path) ==
    /\ worker # "exited"
    /\ callers[c] = "idle"
    /\ callers' = [callers EXCEPT ![c] = "send"]
    /\ paths' = [paths EXCEPT ![c] = path]
    /\ UNCHANGED <<shutdown_signal, uri, discards, server, worker, request, channel, results>>
    /\ UNCHANGED <<callVars, usesVars>>

\* self.sender.send(Request {..})?: Err when the Receiver is dropped, blocked
\* while the channel is full.
Send(c) ==
    /\ worker # "exited"
    /\ callers[c] = "send"
    /\ IF worker = "stopped"
       THEN /\ results' = [results EXCEPT ![c] = SendError]
            /\ callers' = [callers EXCEPT ![c] = "returned"]
            /\ UNCHANGED channel
       ELSE /\ Len(channel) < ChannelCap
            /\ channel' = Append(channel, Request(c, paths[c]))
            /\ callers' = [callers EXCEPT ![c] = "waiting"]
            /\ UNCHANGED results
    /\ UNCHANGED <<shutdown_signal, uri, discards, server, worker, request, paths>>
    /\ UNCHANGED <<callVars, usesVars>>

\* rx.recv()? when the Request, and with it the reply Sender, was dropped.
Disconnected(c) ==
    /\ worker # "exited"
    /\ callers[c] = "waiting"
    /\ request.caller # c
    /\ \A i \in DOMAIN channel : channel[i].caller # c
    /\ results' = [results EXCEPT ![c] = RecvError]
    /\ callers' = [callers EXCEPT ![c] = "returned"]
    /\ UNCHANGED <<shutdown_signal, uri, discards, server, worker, request, channel, paths>>
    /\ UNCHANGED <<callVars, usesVars>>

\* The thread takes the result of its call.
Return(c) ==
    /\ worker # "exited"
    /\ callers[c] = "returned"
    /\ callers' = [callers EXCEPT ![c] = "idle"]
    /\ paths' = [paths EXCEPT ![c] = ""]
    /\ results' = [results EXCEPT ![c] = NoResult]
    /\ UNCHANGED <<shutdown_signal, uri, discards, server, worker, request, channel>>
    /\ UNCHANGED <<callVars, usesVars>>

\* The thread drops its clone of the data source.
Drop(c) ==
    /\ worker # "exited"
    /\ callers[c] = "idle"
    /\ callers' = [callers EXCEPT ![c] = "dropped"]
    /\ UNCHANGED <<shutdown_signal, uri, discards, server, worker, request, channel, paths, results>>
    /\ UNCHANGED <<callVars, usesVars>>

\* The owner of the shutdown Sender sends the signal, or drops the Sender.
SendShutdown ==
    /\ worker # "exited"
    /\ shutdown_signal = "armed"
    /\ shutdown_signal' = "sent"
    /\ UNCHANGED <<uri, discards, server, worker, request, channel, callers, paths, results>>
    /\ UNCHANGED <<callVars, usesVars>>

DropShutdown ==
    /\ worker # "exited"
    /\ shutdown_signal = "armed"
    /\ shutdown_signal' = "dropped"
    /\ UNCHANGED <<uri, discards, server, worker, request, channel, callers, paths, results>>
    /\ UNCHANGED <<callVars, usesVars>>

InternalLoop == ConnectCheck \/ Connect \/ ServeCheck \/ Receive \/ Serve

GrpcNext ==
    \/ ConnectCheck
    \/ Connect
    \/ ServeCheck
    \/ Receive
    \/ Serve
    \/ \E c \in Callers, path \in AccessPaths : Get(c, path)
    \/ \E c \in Callers : Send(c)
    \/ \E c \in Callers : Disconnected(c)
    \/ \E c \in Callers : Return(c)
    \/ \E c \in Callers : Drop(c)
    \/ SendShutdown
    \/ DropShutdown

GrpcSpec == GrpcInit /\ [][GrpcNext]_vars

\* The worker thread and the threads inside get run whenever they can; nobody
\* has to call get, drop a clone or send the shutdown signal.
FairGrpcSpec ==
    /\ GrpcInit /\ [][GrpcNext]_vars
    /\ WF_vars(InternalLoop)
    /\ \A c \in Callers : WF_vars(Send(c) \/ Disconnected(c))

-----------------------------------------------------------------------------
\* extractor.rs: extract_from_bytecode, the dependencies of a compiled module.

ModuleId(address, name) == [address |-> address, name |-> name]

\* Vec::remove(0).
RemoveFirst(handles) == Tail(handles)

ExtractInit ==
    /\ entry = "extract"
    /\ \/ wellformed = TRUE /\ module \in HandleModules \cup BrokenModules
       \/ wellformed = FALSE /\ module = GoodModule
    /\ cap = StringWriter
    /\ pc = "start"
    /\ idx = 0
    /\ imports = EmptyMap
    /\ generics = NoGenerics
    /\ structs = <<>>
    /\ w = <<>>
    /\ result = "none"
    /\ run = 1
    /\ first = [result |-> "none", text |-> <<>>]
    /\ NoDataSource
    /\ NoExtraction

\* extract_from_bytecode: CompiledModule::deserialize(bytecode)?, then
\* BytecodeUses::extract takes the module's handle table.
ExtractDeserialize ==
    /\ pc = "start"
    /\ IF ~(wellformed /\ BoundsOk(module))
       THEN /\ Finish("err")
            /\ UNCHANGED module_handles
       ELSE /\ pc' = "remove"
            /\ module_handles' = module.module_handles
            /\ UNCHANGED result
    /\ UNCHANGED <<entry, wellformed, module, cap, idx, imports, generics, structs, w, run, first>>
    /\ UNCHANGED <<dsVars, uses>>

\* "Remove self module with 0 index."
ExtractRemove ==
    /\ pc = "remove"
    /\ module_handles' = IF module_handles # <<>> THEN RemoveFirst(module_handles)
                         ELSE module_handles
    /\ pc' = "insert"
    /\ UNCHANGED <<entry, wellformed, module, cap, idx, imports, generics, structs, w, result, run, first>>
    /\ UNCHANGED <<dsVars, uses>>

\* The loop over the remaining handles, one iteration, or the return of the
\* collected set. (Identifier::new fails on no name of a deserialized module.)
ExtractInsert ==
    /\ pc = "insert"
    /\ IF module_handles = <<>>
       THEN /\ Finish("ok")
            /\ UNCHANGED <<module_handles, uses>>
       ELSE LET module_handle == Head(module_handles)
                name == At(module.identifiers, module_handle.name)
                address == At(module.address_identifiers, module_handle.address)
            IN /\ uses' = uses \cup {ModuleId(address, name)}
               /\ module_handles' = Tail(module_handles)
               /\ UNCHANGED <<pc, result>>
    /\ UNCHANGED <<entry, wellformed, module, cap, idx, imports, generics, structs, w, run, first>>
    /\ UNCHANGED dsVars

ExtractNext ==
    \/ ExtractDeserialize
    \/ ExtractRemove
    \/ ExtractInsert

ExtractSpec == ExtractInit /\ [][ExtractNext]_vars

-----------------------------------------------------------------------------
\* Reading the written text back: what a step wrote, and its parts.

\* The pieces the step wrote into the writer.
Written == SubSeq(w', Len(w) + 1, Len(w'))

\* The step is WriteStruct for the struct definition at idx, written in full.
WroteStruct == pc = "structs" /\ idx' = idx + 1 /\ result' # "err"

\* The imports table is complete and every handle it read was in bounds.
ImportsBuilt ==
    \/ pc \in {"generics", "decode", "header", "structs"}
    \/ pc = "done" /\ result = "ok"

GenericsBuilt ==
    \/ pc \in {"decode", "header", "structs"}
    \/ pc = "done" /\ result = "ok"

RECURSIVE Before(_, _)
Before(pieces, S) ==
    IF pieces = <<>> \/ Head(pieces) \in S THEN <<>>
    ELSE <<Head(pieces)>> \o Before(Tail(pieces), S)

RECURSIVE After(_, _)
After(pieces, S) ==
    IF pieces = <<>> THEN <<>>
    ELSE IF Head(pieces) \in S THEN Tail(pieces)
    ELSE After(Tail(pieces), S)

RECURSIVE Split(_, _)
Split(pieces, S) ==
    IF pieces = <<>> THEN << <<>> >>
    ELSE LET rest == Split(Tail(pieces), S) IN
         IF Head(pieces) \in S THEN << <<>> >> \o rest
         ELSE << <<Head(pieces)>> \o Head(rest) >> \o Tail(rest)

Keywords == {"resource struct", "native struct", "struct"}

\* The declaration keyword of a written struct.
KeywordOf(pieces) ==
    LET at == {i \in DOMAIN pieces : pieces[i] \in Keywords} IN
    IF at = {} THEN "" ELSE pieces[CHOOSE i \in at : \A j \in at : i <= j]

\* The header of a written struct: up to its field block or its terminator.
HeaderOf(pieces) == Before(pieces, {" {\n", ";\n"})

\* The generic parameters a written header declares, each as its text.
ParamDeclsOf(pieces) ==
    LET header == HeaderOf(pieces) IN
    IF "<" \notin Range(header) THEN <<>>
    ELSE LET list == Split(Before(After(header, {"<"}), {">"}), {", "})
         IN [i \in DOMAIN list |-> Flat(list[i])]

\* The same without the kind annotation: the parameters' display names.
ParamNamesOf(pieces) ==
    LET header == HeaderOf(pieces) IN
    IF "<" \notin Range(header) THEN <<>>
    ELSE LET list == Split(Before(After(header, {"<"}), {">"}), {", "})
         IN [i \in DOMAIN list |->
                Flat(SelectSeq(list[i], LAMBDA x : x \notin {": resource", ": copyable"}))]

\* The field types of a written struct, each as its text.
FieldTypesOf(pieces) ==
    LET lines == Split(Before(After(pieces, {" {\n"}), {"}"}), {",\n", "\n"})
        fields == SelectSeq(lines, LAMBDA l : ": " \in Range(l))
    IN [i \in DOMAIN fields |-> Flat(After(fields[i], {": "}))]

HandleOf(m, def) == At(m.struct_handles, def.struct_handle)

-----------------------------------------------------------------------------
\* C1: round trip. For every module the compiler produced, compiling the text
\* disasm_str gives for it, under the same address, yields that module again,
\* field for field.
C1_RoundTrip ==
    (pc = "done" /\ result = "ok" /\ entry = "disasm" /\ module \in CompiledModules) =>
        Compile(Flat(w)) = module

-----------------------------------------------------------------------------
\* C2: the keyword of every struct declaration is `native struct` iff the
\* layout is Native, whatever the resource flag; otherwise `resource struct`
\* iff the handle is a nominal resource, otherwise `struct`.
SpecKeyword(m, def) ==
    IF def.field_information = Native THEN "native struct"
    ELSE IF HandleOf(m, def).is_nominal_resource THEN "resource struct"
    ELSE "struct"

C2_NativeTakesPrecedence ==
    [][WroteStruct => KeywordOf(Written) = SpecKeyword(module, At(module.struct_defs, idx))]_vars

\* C3: a table index out of bounds met while decoding ends the call with an
\* error value: the call neither panics nor produces text.
C3_OutOfBoundsIsAnError ==
    [][(pc = "decode" /\ pc' = "done" /\ ~BoundsOk(module)) => (result' = "err" /\ w' = <<>>)]_vars

\* C4: a call that ends with an error leaves no text of the call in the
\* caller's writer.
C4_FailClosed ==
    (pc = "done" /\ result = "err") => w = <<>>

-----------------------------------------------------------------------------
\* C5: Imports::new walks the handles in index order and skips the self
\* index; among the handles of one module name the first distinct address gets
\* the bare name, the k-th further distinct address gets the name followed by
\* k, and a repeated (address, name) pair keeps its first token. With Foo at
\* two addresses, types of the first render `Foo::X`, of the second `Foo1::Y`.
NonSelf(m) == {i \in 0..(Len(m.module_handles) - 1) : i # m.self_module_handle_idx}

HandleName(m, i) == At(m.identifiers, At(m.module_handles, i).name)

HandleAddress(m, i) == At(m.address_identifiers, At(m.module_handles, i).address)

\* The first non-self handle with the (address, name) pair of handle i.
FirstOfPair(m, i) ==
    LET same == {j \in NonSelf(m) : /\ HandleName(m, j) = HandleName(m, i)
                                    /\ HandleAddress(m, j) = HandleAddress(m, i)}
    IN CHOOSE j \in same : \A k \in same : j <= k

\* The number of distinct addresses the name of handle i has met before the
\* pair of handle i appears.
AliasNumber(m, i) ==
    Cardinality({HandleAddress(m, j) :
        j \in {k \in NonSelf(m) : k < FirstOfPair(m, i) /\ HandleName(m, k) = HandleName(m, i)}})

SpecToken(m, i) ==
    IF AliasNumber(m, i) = 0 THEN HandleName(m, i)
    ELSE HandleName(m, i) \o ToString(AliasNumber(m, i))

\* The module of the handle-table inputs: field i has the type Item of handle i.
IsHandleModule ==
    /\ Len(module.struct_defs) = 1
    /\ module.struct_defs[1].field_information.tag = "Declared"
    /\ LET fields == module.struct_defs[1].field_information.fields IN
       /\ Len(fields) = Len(module.module_handles)
       /\ \A i \in DOMAIN fields : fields[i].signature = Struct(i - 1)

C5_TokensAssigned ==
    ImportsBuilt =>
        \A i \in NonSelf(module) :
            LET import == get_import(imports, HandleAddress(module, i), HandleName(module, i)) IN
            /\ import # NoImport
            /\ import.kind = (IF AliasNumber(module, i) = 0 THEN "Name" ELSE "Alias")
            /\ Flat(ImportNameEncode(import)) = SpecToken(module, i)

C5_TokensRendered ==
    (WroteStruct /\ IsHandleModule) =>
        \A i \in NonSelf(module) :
            FieldTypesOf(Written)[i + 1] =
                SpecToken(module, i) \o "::" \o At(module.identifiers, At(module.struct_handles, i).name)

C5_ImportAliasAssignment == [](C5_TokensAssigned) /\ [][C5_TokensRendered]_vars

\* Foo at two distinct addresses and a repeated pair, disassembled to the end.
C5_Witness ==
    /\ pc = "done" /\ result = "ok" /\ IsHandleModule
    /\ \E i, j, k \in NonSelf(module) :
          /\ i < j /\ j < k
          /\ HandleName(module, i) = "Foo" /\ HandleName(module, j) = "Foo" /\ HandleName(module, k) = "Foo"
          /\ HandleAddress(module, i) # HandleAddress(module, j)
          /\ HandleAddress(module, k) = HandleAddress(module, i)
    /\ \E n \in DOMAIN w : w[n] = "Foo1"

\* C6: the self module never gets an import entry: after Imports::new the
\* lookup of the self module's (address, name) returns no import, so types of
\* structs the self handle owns render unqualified.
C6_SelfHasNoImport ==
    ImportsBuilt => get_import(imports, SelfId(module).address, SelfId(module).name) = NoImport

-----------------------------------------------------------------------------
\* C7: when the identifier pool leaves a candidate letter unused, no display
\* name of a generic parameter (the bare prefix for parameter 0, prefix_i for
\* parameter i > 0) equals an identifier of the module.
C7_GenericNamesNeverCollide ==
    [][(WroteStruct /\ FreePrefixes(module.identifiers) # {}) =>
          \A i \in DOMAIN ParamNamesOf(Written) :
              ParamNamesOf(Written)[i] \notin Range(module.identifiers)]_vars

-----------------------------------------------------------------------------
\* C8: the module prefix is the first of T, G, V, A, B, C, D, F, H, J, K, L,
\* M, N, P, Q, R, S, W, X, Y, Z absent from the identifier pool, the same for
\* every struct; a header renders parameter 0 as the prefix and parameter i > 0
\* as prefix_i, followed by `: resource`, `: copyable` or nothing by its kind.
SpecCandidates ==
    <<"T", "G", "V", "A", "B", "C", "D", "F", "H", "J", "K", "L", "M", "N", "P", "Q", "R", "S",
      "W", "X", "Y", "Z">>

RECURSIVE FirstAbsentFrom(_, _)
FirstAbsentFrom(identifiers, i) ==
    IF i > Len(SpecCandidates) THEN ""
    ELSE IF SpecCandidates[i] \notin Range(identifiers) THEN SpecCandidates[i]
    ELSE FirstAbsentFrom(identifiers, i + 1)

FirstAbsent(identifiers) == FirstAbsentFrom(identifiers, 1)

SpecKindText(kind) ==
    CASE kind = "Resource" -> ": resource"
      [] kind = "Copyable" -> ": copyable"
      [] kind = "All" -> ""

SpecParamName(prefix, i) == IF i = 0 THEN prefix ELSE prefix \o "_" \o ToString(i)

C8_PrefixChosen ==
    (GenericsBuilt /\ FirstAbsent(module.identifiers) # "") =>
        generics = SimplePrefix(FirstAbsent(module.identifiers))

C8_HeaderRendered ==
    (WroteStruct /\ FirstAbsent(module.identifiers) # "") =>
        LET kinds == HandleOf(module, At(module.struct_defs, idx)).type_parameters IN
        ParamDeclsOf(Written) =
            [i \in 1..Len(kinds) |->
                SpecParamName(FirstAbsent(module.identifiers), i - 1) \o SpecKindText(kinds[i])]

C8_GenericParameterNaming == [](C8_PrefixChosen) /\ [][C8_HeaderRendered]_vars

\* A pool with "T" and without "G", and a struct of two parameters written as
\* G and G_1.
C8_Witness ==
    /\ pc = "done" /\ result = "ok"
    /\ "T" \in Range(module.identifiers) /\ "G" \notin Range(module.identifiers)
    /\ Len(module.struct_handles[1].type_parameters) = 2
    /\ \E n \in DOMAIN w :
          /\ n + 4 \in DOMAIN w
          /\ SubSeq(w, n, n + 4) = <<"<", "G", ", ", "G", "_">>

-----------------------------------------------------------------------------
\* C9: when the identifier pool leaves a candidate unused, two disassembly
\* runs on the same input produce the same text; the random TYPE_<n> prefix is
\* drawn only when all 22 candidates are identifiers of the module.
C9_Determinism ==
    /\ (GenericsBuilt /\ generics.kind = "Generated") => FirstAbsent(module.identifiers) = ""
    /\ (run = 2 /\ pc = "done" /\ FirstAbsent(module.identifiers) # "") =>
          (result = first.result /\ Flat(w) = Flat(first.text))

\* The second run has ended, with generic parameters in its text.
C9_Witness ==
    /\ run = 2 /\ pc = "done" /\ result = "ok"
    /\ FirstAbsent(module.identifiers) # ""
    /\ \E i \in DOMAIN structs : structs[i].type_params # <<>> /\ structs[i].fields # <<>>

-----------------------------------------------------------------------------
\* C10: a type signature renders by the recursive rule: the primitives as
\* their keywords, Vector(t) as `vector<` t `>`, Reference(t) as `&` t,
\* MutableReference(t) as `&mut ` t, TypeParameter(i) as the display name of
\* parameter i, Struct(h) and StructInstantiation(h, args) as the struct name,
\* prefixed with the import token of its module and `::` exactly when the
\* resolver has an entry, and followed by `<` args joined by `, ` `>` exactly
\* when args is not empty.
RECURSIVE JoinStrings(_, _)
JoinStrings(strs, sep) ==
    IF strs = <<>> THEN ""
    ELSE IF Len(strs) = 1 THEN strs[1]
    ELSE strs[1] \o sep \o JoinStrings(Tail(strs), sep)

PrefixText ==
    IF generics.kind = "SimplePrefix" THEN generics.p ELSE "TYPE_" \o ToString(generics.n)

SpecStructName(h) ==
    LET handler == At(module.struct_handles, h)
        import == get_import(imports, HandleAddress(module, handler.module),
                             HandleName(module, handler.module))
    IN (IF import # NoImport THEN Flat(ImportNameEncode(import)) \o "::" ELSE "")
           \o At(module.identifiers, handler.name)

RECURSIVE SpecRender(_)
SpecRender(sig) ==
    CASE sig = U8 -> "u8"
      [] sig = U64 -> "u64"
      [] sig = U128 -> "u128"
      [] sig = Bool -> "bool"
      [] sig = Address -> "address"
      [] sig = Signer -> "signer"
      [] sig.tag = "Vector" -> "vector<" \o SpecRender(sig.inner) \o ">"
      [] sig.tag = "Reference" -> "&" \o SpecRender(sig.inner)
      [] sig.tag = "MutableReference" -> "&mut " \o SpecRender(sig.inner)
      [] sig.tag = "TypeParameter" -> SpecParamName(PrefixText, sig.index)
      [] sig.tag = "Struct" -> SpecStructName(sig.handle)
      [] sig.tag = "StructInstantiation" ->
            SpecStructName(sig.handle)
                \o (IF sig.args = <<>> THEN ""
                    ELSE "<" \o JoinStrings([i \in DOMAIN sig.args |-> SpecRender(sig.args[i])], ", ")
                             \o ">")

C10_TypeSignatureRendering ==
    [][(WroteStruct /\ At(module.struct_defs, idx).field_information.tag = "Declared") =>
          LET fields == At(module.struct_defs, idx).field_information.fields IN
          FieldTypesOf(Written) = [i \in DOMAIN fields |-> SpecRender(fields[i].signature)]]_vars

\* A field of an imported instantiation with two arguments, the first a
\* mutable reference, written to the end.
C10_Witness ==
    /\ pc = "done" /\ result = "ok"
    /\ \E sig \in Signatures :
          /\ module = SignatureModule(sig)
          /\ sig.tag = "StructInstantiation" /\ sig.handle = 1
          /\ Len(sig.args) = 2 /\ sig.args[1].tag = "MutableReference"
    /\ \E n \in DOMAIN w : w[n] = "&mut "

-----------------------------------------------------------------------------
\* C11: a struct declaration has a brace-delimited field block exactly when
\* its layout is Declared. A Native struct is its header and `;`, without
\* braces, with generic parameters too, and with no generic parameters and
\* the resource flag false it is exactly `native struct Name;`; a Declared
\* struct without fields still has its opening and its closing brace.
BracePieces == {" {\n", "}"}

HasFieldBlock(pieces) == " {\n" \in Range(pieces) /\ "}" \in Range(pieces)

StructNameOf(m, def) == At(m.identifiers, HandleOf(m, def).name)

C11_RenderingShape ==
    [][WroteStruct =>
          LET def == At(module.struct_defs, idx)
              handle == HandleOf(module, def)
          IN /\ HasFieldBlock(Written) <=> def.field_information.tag = "Declared"
             /\ def.field_information.tag = "Native" =>
                   /\ Range(Written) \cap BracePieces = {}
                   /\ After(Written, {";\n"}) = <<"\n">>
                   /\ (handle.type_parameters = <<>> /\ ~handle.is_nominal_resource) =>
                         Flat(Written) = Spaces(INDENT) \o "native struct "
                                             \o StructNameOf(module, def) \o ";\n" \o "\n"
             /\ (def.field_information.tag = "Declared"
                    /\ def.field_information.fields = <<>>) =>
                   Flat(After(Written, {" {\n"})) = Spaces(INDENT) \o "}" \o "\n"]_vars

\* A Native struct with two generic parameters and a Declared struct without
\* fields, both written.
C11_Witness ==
    /\ pc = "done" /\ result = "ok"
    /\ Len(module.struct_defs) = 2
    /\ module.struct_defs[1].field_information.tag = "Native"
    /\ Len(HandleOf(module, module.struct_defs[1]).type_parameters) = 2
    /\ module.struct_defs[2].field_information = Declared(<<>>)
    /\ ";\n" \in Range(w) /\ " {\n" \in Range(w)

-----------------------------------------------------------------------------
\* C12: a struct definition whose layout is Native and whose handle is a
\* nominal resource makes the disassembly end with an error, and no
\* declaration of that struct is written.
NativeResources(m) ==
    {k \in DOMAIN m.struct_defs :
        /\ m.struct_defs[k].field_information.tag = "Native"
        /\ HandleOf(m, m.struct_defs[k]).is_nominal_resource}

C12_NativeResourceIsUnsupported ==
    (entry = "disasm" /\ wellformed /\ BoundsOk(module) /\ NativeResources(module) # {}) =>
        /\ pc = "done" => result = "err"
        /\ \A n \in DOMAIN w :
              (w[n] \in Keywords /\ n + 2 <= Len(w)) =>
                  w[n + 2] \notin {StructNameOf(module, module.struct_defs[k]) :
                                      k \in NativeResources(module)}

-----------------------------------------------------------------------------
\* C13: the text of a module with n struct definitions has exactly n struct
\* declarations, and the k-th declaration is the one of the k-th entry of the
\* struct-definition table.
RECURSIVE DeclarationsOf(_)
DeclarationsOf(pieces) ==
    IF Len(pieces) < 3 THEN <<>>
    ELSE IF Head(pieces) \in Keywords
    THEN <<pieces[3]>> \o DeclarationsOf(Tail(pieces))
    ELSE DeclarationsOf(Tail(pieces))

C13_StructOrderPreserved ==
    (pc = "done" /\ result = "ok") =>
        DeclarationsOf(w) =
            [k \in DOMAIN module.struct_defs |-> StructNameOf(module, module.struct_defs[k])]

\* Two struct definitions of different names, written to the end.
C13_Witness ==
    /\ pc = "done" /\ result = "ok"
    /\ Len(module.struct_defs) = 2
    /\ DeclarationsOf(w) = <<"Coin", "Box">>

-----------------------------------------------------------------------------
\* C14: every two consecutive struct declarations of the text are separated
\* by exactly one blank line, whatever their layouts.
LineEnds == {";\n", " {\n", ",\n", "\n", "}\n", " { \n"}

RECURSIVE TrailingNewlines(_)
TrailingNewlines(pieces) ==
    IF pieces = <<>> \/ pieces[Len(pieces)] # "\n" THEN 0
    ELSE 1 + TrailingNewlines(SubSeq(pieces, 1, Len(pieces) - 1))

\* The empty lines at the end of the pieces.
BlankLinesAfter(pieces) ==
    LET n == TrailingNewlines(pieces)
        rest == SubSeq(pieces, 1, Len(pieces) - n)
    IN IF rest # <<>> /\ rest[Len(rest)] \in LineEnds THEN n
       ELSE IF n = 0 THEN 0 ELSE n - 1

C14_BlankLineBetweenStructs ==
    [][(WroteStruct /\ idx + 1 < Len(structs)) => BlankLinesAfter(Written) = 1]_vars

-----------------------------------------------------------------------------
\* C15: a Declared struct with n >= 1 fields renders them in field-table
\* order, one per line as `<name>: <type>`, one indent unit deeper than the
\* header, with `,` after every field but the last; the resource struct Coin
\* with the one field value: u64 is, at indent 0, the three lines
\* `resource struct Coin {`, `    value: u64`, `}`.
SpecIndentUnit == Spaces(4)

RECURSIVE SpecIndent(_)
SpecIndent(units) == IF units = 0 THEN "" ELSE SpecIndentUnit \o SpecIndent(units - 1)

SpecFieldLines(m, fields, units) ==
    JoinStrings([i \in DOMAIN fields |->
                    SpecIndent(units + 1) \o At(m.identifiers, fields[i].name) \o ": "
                        \o SpecRender(fields[i].signature)], ",\n")

DeclaredWithFields(def) ==
    def.field_information.tag = "Declared" /\ def.field_information.fields # <<>>

SimpleResourceStruct ==
    StructDefinition(0, Declared(<<FieldDefinition(IdentIdx("value"), U64)>>))

C15_Written ==
    (WroteStruct /\ DeclaredWithFields(At(module.struct_defs, idx))) =>
        Flat(After(Written, {" {\n"})) =
            SpecFieldLines(module, At(module.struct_defs, idx).field_information.fields, 1)
                \o "\n" \o SpecIndent(1) \o "}" \o "\n"

C15_AtIndentZero ==
    (pc = "structs" /\ module \in FieldModules) =>
        /\ Flat(After(StructDefEncode(structs[1], 0), {" {\n"})) =
              SpecFieldLines(module, module.struct_defs[1].field_information.fields, 0)
                  \o "\n" \o "}"
        /\ module.struct_defs[1] = SimpleResourceStruct =>
              Flat(StructDefEncode(structs[1], 0)) =
                  "resource struct Coin {\n" \o "    value: u64\n" \o "}"

C15_FieldListRendering == [](C15_AtIndentZero) /\ [][C15_Written]_vars

\* A struct of three different fields, and the struct Coin of the one field
\* value: u64, written to the end.
C15_Witness ==
    /\ pc = "done" /\ result = "ok"
    /\ module \in FieldModules
    /\ LET fields == module.struct_defs[1].field_information.fields IN
       /\ Len(fields) = 3
       /\ Cardinality(Range(fields)) = 3
    /\ ",\n" \in Range(w)

-----------------------------------------------------------------------------
\* C16: two distinct non-self (address, module name) pairs never get the same
\* display token from Imports::new.
PairToken(m, map, i) ==
    Flat(ImportNameEncode(get_import(map, HandleAddress(m, i), HandleName(m, i))))

C16_ImportTokensUnambiguous ==
    ImportsBuilt =>
        \A i, j \in NonSelf(module) :
            (<<HandleAddress(module, i), HandleName(module, i)>>
                 # <<HandleAddress(module, j), HandleName(module, j)>>) =>
                PairToken(module, imports, i) # PairToken(module, imports, j)

-----------------------------------------------------------------------------
\* C17: the first write to the caller's writer happens only after the import
\* table, the generic namer and every struct definition of the module have
\* been decoded; a call that fails while decoding leaves the writer untouched.
C17_DecodePrecedesOutput ==
    w # <<>> =>
        /\ pc \in {"structs", "done"}
        /\ imports = ImportsNewFrom(EmptyMap, module, 0)
        /\ generics # NoGenerics
        /\ Len(structs) = Len(module.struct_defs)
        /\ \A k \in DOMAIN structs :
              structs[k] = StructDefNew(module.struct_defs[k], module, generics, imports)

\* The header is written and no struct yet, after two structs were decoded.
C17_Witness ==
    /\ pc = "structs" /\ idx = 0 /\ w # <<>>
    /\ Len(structs) = 2
    /\ Len(module.module_handles) > 1

-----------------------------------------------------------------------------
\* C18: once the shutdown signal has been sent, the thread running
\* internal_loop eventually leaves its loop and terminates, while connecting
\* and while serving, also when no further request is submitted and clones of
\* the data source are alive.
C18_ShutdownHonoured == (shutdown_signal = "sent") ~> (worker \in {"stopped", "exited"})

-----------------------------------------------------------------------------
\* C19: the worker takes the queued requests one at a time in queue order,
\* and a get call that returns has the mapped answer to its own access path:
\* Ok(Some(blob)) for None, Ok(None) for NoData, Err(message) for BadRequest.
SpecAnswer(code, path) ==
    IF code = "None" THEN OkSome(Blob(path))
    ELSE IF code = "NoData" THEN OkNone
    ELSE Err(ErrorMessage(path))

C19_OwnAnswer ==
    \A c \in DOMAIN callers :
        (callers[c] = "returned" /\ worker # "stopped") =>
            /\ server[paths[c]] \in {"None", "NoData", "BadRequest"}
            /\ results[c] = SpecAnswer(server[paths[c]], paths[c])

C19_QueueOrder ==
    (request' # request /\ request' # NoRequest) =>
        /\ request = NoRequest
        /\ channel # <<>>
        /\ request' = Head(channel)
        /\ channel' = Tail(channel)

C19_Correlation == [](C19_OwnAnswer) /\ [][C19_QueueOrder]_vars

\* Two threads asked for different paths with different answers while the
\* other's request was queued, and both have their answer.
C19_Witness ==
    /\ worker \notin {"stopped", "exited", "none"}
    /\ \A c \in Callers : callers[c] = "returned"
    /\ paths[1] # paths[2]
    /\ server[paths[1]] = "NoData" /\ server[paths[2]] = "BadRequest"
    /\ results[1] = OkNone /\ results[2] = Err(ErrorMessage(paths[2]))

-----------------------------------------------------------------------------
\* C20: once the worker thread has terminated, every get call eventually
\* returns: a call made after the termination, and a call whose request was
\* queued and not yet taken when the worker stopped.
C20_NoCallerHangs ==
    \A c \in Callers :
        (worker = "stopped" /\ callers[c] \in {"send", "waiting"}) ~> (callers[c] = "returned")

-----------------------------------------------------------------------------
\* C21: for every compiled module, extract_from_bytecode returns exactly the
\* ids of the module handles other than the module's self handle, wherever
\* the self handle stands in the module-handle table.
C21_ExtractExcludesSelf ==
    (entry = "extract" /\ pc = "done" /\ result = "ok") =>
        uses = {ModuleId(HandleAddress(module, i), HandleName(module, i)) : i \in NonSelf(module)}

====
